---- MODULE Spec2Model ----
(***************************************************************************)
(* Model of bot.py: the per-guild playback engine of a Discord music bot.  *)
(*                                                                         *)
(* One guild is modelled.  All mutable state of bot.py is either the       *)
(* GuildPlayer of a guild (players[guild.id]) or that guild's voice        *)
(* client (guild.voice_client); no function of bot.py reads or writes the  *)
(* state of two guilds, so guilds evolve independently.                    *)
(*                                                                         *)
(* The asyncio event loop is cooperative: a coroutine runs without         *)
(* interruption from one suspending await to the next.  Every action below *)
(* is one such run.  asyncio.Lock.acquire() does not suspend when the lock *)
(* is free and nobody waits for it, and an await of a coroutine that       *)
(* returns without suspending does not suspend either.                     *)
(*                                                                         *)
(* discord.VoiceClient, as the code uses it:                               *)
(*   play(src, after)   raises ClientException unless connected and not    *)
(*                      playing; else starts the player thread;            *)
(*   stop()             ends the player thread, which calls `after` once;  *)
(*   disconnect(force)  returns at once if not force and not connected;    *)
(*                      else stop(), marks the client not connected,       *)
(*                      suspends on the gateway, and in a finally block    *)
(*                      removes the client from the guild (cleanup);       *)
(*   move_to(ch)        suspends on the gateway, then the channel changes; *)
(*   channel.connect()  suspends, then yields a connected client or raises.*)
(* Nothing in bot.py calls pause(), so is_paused() is always False.        *)
(***************************************************************************)
EXTENDS Naturals, Sequences, FiniteSets, Bags, TLC

\* ---------------------------------------------------------------- bounds
MaxSongs == 2
MaxHandlers == 2
MaxOrphans == 1
MaxBatch == 2
MaxEntries == 30

\* ------------------------------------------------------ program constants
ConnectAttempts == 3
MAX_SPOTIFY_TRACKS == 25
AlbumPageSize == 50
PlaylistPageSize == 100

Channels == {"X", "Y"}
None == 0
Songs == 1..MaxSongs

VARIABLES
    player,         \* GuildPlayer: queue, now_playing, idle_task, lock, voice_lock
    vc,             \* guild.voice_client
    orphans,        \* idle tasks no longer referenced by player.idle_task, not finished
    callbacks,      \* play_next coroutines posted by _after_playback, not yet run
    handlers,       \* command coroutines suspended at an await
    voice_waiters,  \* command coroutines queued on player.voice_lock (FIFO)
    nextId,         \* identity of the next Song object
    played,         \* history: songs in the order they were assigned to now_playing
    sent,           \* the message the latest step sent with followup.send, if any
    ex,             \* one call of extract_song: the providers' answers and the outcome
    sp              \* one call of spotify_queries_from_url: the catalog and the outcome

vars == <<player, vc, orphans, callbacks, handlers, voice_waiters, nextId, played,
          sent, ex, sp>>

\* The variables of the two resolvers, which the playback engine leaves alone.
resolvers == <<ex, sp>>

\* The state the synchronous code works on, as one value.
World == [player |-> player, vc |-> vc, orphans |-> orphans,
          callbacks |-> callbacks, played |-> played]

SetWorld(w) ==
    /\ player' = w.player
    /\ vc' = w.vc
    /\ orphans' = w.orphans
    /\ callbacks' = w.callbacks
    /\ played' = w.played

\* ------------------------------------------------------------ GuildPlayer
GuildPlayer ==
    [queue |-> <<>>, now_playing |-> None, idle_task |-> "None",
     lock |-> FALSE, voice_lock |-> FALSE]

NoVoiceClient ==
    [exists |-> FALSE, connected |-> FALSE, playing |-> FALSE, channel |-> "-"]

\* --------------------------------------------------- discord.VoiceClient
is_connected(v) == v.exists /\ v.connected

is_playing(v) == v.exists /\ v.playing

is_paused(v) == FALSE

\* VoiceClient.stop(): the player thread ends and calls `after`, which posts
\* play_next to the loop.
vc_stop(w) ==
    IF is_playing(w.vc)
    THEN [w EXCEPT !.vc.playing = FALSE, !.callbacks = @ + 1]
    ELSE w

\* VoiceClient.disconnect() up to its first suspension.  The channel of a
\* client that is not connected is read nowhere.
vc_disconnect_begin(w) ==
    LET w1 == vc_stop(w) IN [w1 EXCEPT !.vc.connected = FALSE, !.vc.channel = "-"]

\* The finally block of VoiceClient.disconnect(): the client leaves the guild.
\* A newer client of the guild is connected and is not touched.
vc_cleanup(w) ==
    IF w.vc.exists /\ ~w.vc.connected
    THEN [w EXCEPT !.vc = NoVoiceClient]
    ELSE w

\* ------------------------------------------------------- idle disconnect
\* player.idle_task is modelled by the state of the task it references:
\*   "None"            no task
\*   "sleeping"        in asyncio.sleep(IDLE_TIMEOUT_SECONDS)
\*   "disconnecting"   in await vc.disconnect()
\*   "done"            finished
\* Task.cancel() makes the task raise CancelledError at its next step.
TaskCancel_ignored(st) == st

TaskCancel(st) ==
    IF st = "sleeping" THEN "cancelledSleep"
    ELSE IF st = "disconnecting" THEN "cancelledDisc"
    ELSE st

cancel_idle_disconnect(w) ==
    LET t == w.player.idle_task IN
    IF t \notin {"None", "done"}
    THEN [w EXCEPT !.orphans = @ (+) SetToBag({TaskCancel(t)}),
                   !.player.idle_task = "None"]
    ELSE [w EXCEPT !.player.idle_task = "None"]

schedule_idle_disconnect_keeping(w) ==
    LET t == w.player.idle_task IN
    IF t \notin {"None", "done"}
    THEN [w EXCEPT !.orphans = @ (+) SetToBag({t}), !.player.idle_task = "sleeping"]
    ELSE [w EXCEPT !.player.idle_task = "sleeping"]

schedule_idle_disconnect(w) ==
    [cancel_idle_disconnect(w) EXCEPT !.player.idle_task = "sleeping"]

\* The condition _idle_disconnect checks when its sleep returns.
IdleCondition(w) ==
    /\ w.vc.exists
    /\ is_connected(w.vc)
    /\ ~is_playing(w.vc)
    /\ ~is_paused(w.vc)
    /\ w.player.queue = <<>>

\* ------------------------------------------------------------- play_next
popleft_from_right(q) == [song |-> q[Len(q)], rest |-> SubSeq(q, 1, Len(q) - 1)]

popleft(q) == [song |-> Head(q), rest |-> Tail(q)]

\* Line 338: a stream is playing or paused.
play_next_busy_unchecked(w) == FALSE

play_next_busy_by_now_playing(w) ==
    is_playing(w.vc) \/ is_paused(w.vc) \/ w.player.now_playing # None

play_next_busy(w) == is_playing(w.vc) \/ is_paused(w.vc)

\* Lines 339-340.
play_next_when_busy_clears(w) ==
    [cancel_idle_disconnect(w) EXCEPT !.player.now_playing = None]

play_next_when_busy(w) == cancel_idle_disconnect(w)

\* Lines 342-344.
play_next_when_empty_unarmed(w) == [w EXCEPT !.player.now_playing = None]

play_next_when_empty(w) ==
    schedule_idle_disconnect([w EXCEPT !.player.now_playing = None])

\* VoiceClient.play(source, after=_after_playback)
vc_play(w) ==
    IF ~is_connected(w.vc) \/ is_playing(w.vc)
    THEN [w |-> w, out |-> "raised"]
    ELSE [w |-> [w EXCEPT !.vc.playing = TRUE], out |-> "ok"]

\* ffmpegFails: discord.FFmpegPCMAudio(...) raises.
\* out: "ok" returned, "raised" an exception left play_next,
\*      "blocked" suspended forever on player.lock.
play_next(w, ffmpegFails) ==
    IF ~w.vc.exists THEN [w |-> w, out |-> "ok"]
    ELSE IF w.player.lock THEN [w |-> w, out |-> "blocked"]
    ELSE IF play_next_busy(w) THEN [w |-> play_next_when_busy(w), out |-> "ok"]
    ELSE IF w.player.queue = <<>> THEN [w |-> play_next_when_empty(w), out |-> "ok"]
    ELSE LET p == popleft(w.player.queue)
             w1 == cancel_idle_disconnect(
                     [w EXCEPT !.player.queue = p.rest,
                               !.player.now_playing = p.song,
                               !.played = Append(@, p.song)])
         IN IF ffmpegFails
            \* except branch: now_playing = None; await play_next(guild) with the
            \* lock still held: the inner call waits for the lock forever.
            THEN [w |-> [w1 EXCEPT !.player.now_playing = None, !.player.lock = TRUE],
                  out |-> "blocked"]
            ELSE vc_play(w1)

\* One step of the coroutine _idle_disconnect of a task in state st.
\* Returns the world and the task's next state.
_idle_disconnect(w, st) ==
    IF st = "sleeping"
    THEN IF IdleCondition(w)
         THEN [w |-> vc_disconnect_begin(w), st |-> "disconnecting"]
         ELSE [w |-> w, st |-> "done"]
    ELSE IF st = "disconnecting"
    THEN [w |-> [vc_cleanup(w) EXCEPT !.player.now_playing = None], st |-> "done"]
    ELSE IF st = "cancelledDisc"
    \* CancelledError raised inside vc.disconnect(): its finally block runs,
    \* line 107 does not.
    THEN [w |-> vc_cleanup(w), st |-> "done"]
    ELSE [w |-> w, st |-> "done"]

\* ------------------------------------------------------ command handlers
\* A suspended command coroutine: the command, the await it is suspended at,
\* the requester's voice channel, its locals (att: the connect attempt it is
\* in; left: Spotify queries not yet resolved; added, failed: the counters of
\* the batch loop) and, at pc "send", the message it is sending.
Handler(cmd, pc, ch) ==
    [cmd |-> cmd, pc |-> pc, ch |-> ch, att |-> 0, left |-> 0, added |-> 0,
     failed |-> 0, msg |-> "-"]

\* The messages of /join and /play.  An exception is reported by its text
\* (/play prefixes it with "Error: ").
ChannelConflict == "I'm already active in that channel."
ConnectionFailed == "Voice connection failed: last_exc"
NotConnected == "Not connected to voice."
NoPlayableTracks == "No playable tracks found in that Spotify link."
NoneResolved == "Could not resolve any Spotify tracks to playable sources."

\* await interaction.followup.send(msg): the last await of the handler;
\* nothing of the handler runs after it.
Respond(h, msg) == [Handler(h.cmd, "done", "-") EXCEPT !.msg = msg]

\* No message.
Silent == "-"

\* The step sends no follow-up message.
Quiet == sent' = Silent

\* The body of `async with player.voice_lock` up to its first suspension.
\* pc "returned"/"raised": ensure_voice is over and the lock released.
ensure_voice(h, w) ==
    IF ~w.vc.exists
    THEN [w |-> [w EXCEPT !.player.voice_lock = TRUE],
          h |-> [h EXCEPT !.pc = "ev_connect", !.att = 1]]
    ELSE IF ~is_connected(w.vc)
    THEN [w |-> [vc_disconnect_begin(w) EXCEPT !.player.voice_lock = TRUE],
          h |-> [h EXCEPT !.pc = "ev_fdisc"]]
    ELSE IF w.vc.channel # h.ch
    THEN IF is_playing(w.vc) \/ is_paused(w.vc)
         THEN [w |-> [w EXCEPT !.player.voice_lock = FALSE],
               h |-> [h EXCEPT !.pc = "raised", !.msg = ChannelConflict]]
         ELSE [w |-> [w EXCEPT !.player.voice_lock = TRUE],
               h |-> [h EXCEPT !.pc = "ev_move"]]
    ELSE [w |-> [w EXCEPT !.player.voice_lock = FALSE],
          h |-> [h EXCEPT !.pc = "returned"]]

\* What /join and /play do once ensure_voice is over, up to the next suspension.
after_ensure_voice(r) ==
    IF r.h.pc = "raised"
    THEN [w |-> r.w, h |-> Respond(r.h, r.h.msg)]
    ELSE IF r.h.pc = "returned"
    THEN IF ~is_connected(r.w.vc)
         THEN [w |-> r.w,
               h |-> Respond(r.h, IF r.h.cmd = "join"
                                  THEN "I could not connect to voice."
                                  ELSE "Voice connection failed. I did not queue your song.")]
         ELSE IF r.h.cmd = "join"
         THEN [w |-> schedule_idle_disconnect(r.w),
               h |-> Respond(r.h, "Joined your voice channel.")]
         ELSE [w |-> cancel_idle_disconnect(r.w),
               h |-> [r.h EXCEPT !.pc = IF r.h.cmd = "play" THEN "extract"
                                                            ELSE "sp_expand",
                                 !.ch = "-", !.att = 0]]
    ELSE r

\* A handler suspended on player.lock inside play_next; its locals are dead.
Blocked(h) == Handler(h.cmd, "pn_wait", "-")

\* Lines 493-496: the answer of a single-track /play.  sameTitle: the song
\* that is now_playing, when it is another Song object than song, has the
\* same title as song.
play_response(w, song, sameTitle) ==
    IF w.player.now_playing # None /\ (w.player.now_playing = song \/ sameTitle)
    THEN "Now playing"
    ELSE "Queued"

\* queue.append(song); await play_next(guild); response.
enqueue_and_play(h, w, song, ffmpegFails, sameTitle) ==
    LET r == play_next([w EXCEPT !.player.queue = Append(@, song)], ffmpegFails)
    IN [w |-> r.w,
        h |-> IF r.out = "blocked" THEN Blocked(h)
              ELSE IF r.out = "raised" THEN Respond(h, NotConnected)
              ELSE Respond(h, play_response(r.w, song, sameTitle))]

\* ------------------------------------------------------------ bookkeeping
InFlight == BagCardinality(handlers) + Len(voice_waiters)

Commit(w) ==
    /\ BagCardinality(w.orphans) <= MaxOrphans
    /\ SetWorld(w)

Suspend(old, h) ==
    LET rest == handlers (-) old IN
    /\ handlers' = IF h.pc = "done" THEN rest ELSE rest (+) SetToBag({h})
    /\ sent' = IF h.pc = "done" THEN h.msg ELSE Silent

One(h) == SetToBag({h})

NoCall == [done |-> FALSE]

Init ==
    /\ player = GuildPlayer
    /\ vc = NoVoiceClient
    /\ orphans = EmptyBag
    /\ callbacks = 0
    /\ handlers = EmptyBag
    /\ voice_waiters = <<>>
    /\ nextId = 1
    /\ played = <<>>
    /\ sent = Silent
    /\ ex = NoCall
    /\ sp = NoCall

\* ---------------------------------------------------------------- actions
\* /join, /play <query>, /play <spotify url> from a member in channel c.
StartCommand(cmd, c) ==
    /\ InFlight < MaxHandlers
    /\ IF player.voice_lock \/ voice_waiters # <<>>
       THEN /\ voice_waiters' = Append(voice_waiters, Handler(cmd, "ev_lock", c))
            /\ UNCHANGED <<player, vc, orphans, callbacks, handlers, played>>
            /\ Quiet
       ELSE LET r == after_ensure_voice(ensure_voice(Handler(cmd, "start", c), World))
            IN /\ Commit(r.w)
               /\ Suspend(EmptyBag, r.h)
               /\ UNCHANGED voice_waiters
    /\ UNCHANGED nextId
    /\ UNCHANGED resolvers

Join == \E c \in Channels : StartCommand("join", c)

Play == \E c \in Channels : StartCommand("play", c)

PlaySpotify == \E c \in Channels : StartCommand("play_spotify", c)

\* The first coroutine queued on voice_lock gets it.
VoiceLockAcquired ==
    /\ voice_waiters # <<>>
    /\ ~player.voice_lock
    /\ LET r == after_ensure_voice(ensure_voice(Head(voice_waiters), World))
       IN /\ Commit(r.w)
          /\ Suspend(EmptyBag, r.h)
    /\ voice_waiters' = Tail(voice_waiters)
    /\ UNCHANGED nextId
    /\ UNCHANGED resolvers

\* Line 296: after attempt att of range(3) another attempt follows.
attempts_left_one_more(att) == att <= ConnectAttempts

attempts_left(att) == att < ConnectAttempts

\* The await of an attempt of _connect_with_retry is over:
\*   "connected"      voice_channel.connect() returned a connected client;
\*   "not_connected"  it returned a client that reports not connected;
\*   "raised"         it raised (and the sleep of line 303 is over); this is
\*                    the only outcome while the guild has a voice client
\*                    ("Already connected to a voice channel").
ConnectDone ==
    \E h \in BagToSet(handlers), res \in {"connected", "not_connected", "raised"} :
        /\ h.pc = "ev_connect"
        /\ vc.exists => res = "raised"
        /\ LET w1 == IF res = "raised" THEN World
                     ELSE [World EXCEPT
                             !.vc = [exists |-> TRUE, connected |-> res = "connected",
                                     playing |-> FALSE,
                                     channel |-> IF res = "connected" THEN h.ch
                                                 ELSE "-"]]
               r == IF res = "connected"
                    THEN after_ensure_voice(
                           [w |-> [w1 EXCEPT !.player.voice_lock = FALSE],
                            h |-> [h EXCEPT !.pc = "returned"]])
                    ELSE IF attempts_left(h.att)
                    THEN [w |-> w1, h |-> [h EXCEPT !.att = @ + 1]]
                    ELSE after_ensure_voice(
                           [w |-> [w1 EXCEPT !.player.voice_lock = FALSE],
                            h |-> [h EXCEPT !.pc = "raised", !.msg = ConnectionFailed]])
           IN /\ Commit(r.w)
              /\ Suspend(One(h), r.h)
        /\ UNCHANGED <<voice_waiters, nextId>>
        /\ UNCHANGED resolvers

\* voice_client.disconnect(force=True) returns; _connect_with_retry starts.
ForceDisconnectDone ==
    \E h \in BagToSet(handlers) :
        /\ h.pc = "ev_fdisc"
        /\ Commit(vc_cleanup(World))
        /\ Suspend(One(h), [h EXCEPT !.pc = "ev_connect", !.att = 1])
        /\ UNCHANGED <<voice_waiters, nextId>>
        /\ UNCHANGED resolvers

\* voice_client.move_to(voice_channel) returns.
MoveDone ==
    \E h \in BagToSet(handlers) :
        /\ h.pc = "ev_move"
        /\ LET w1 == IF is_connected(vc)
                     THEN [World EXCEPT !.vc.channel = h.ch]
                     ELSE World
               r == after_ensure_voice(
                      [w |-> [w1 EXCEPT !.player.voice_lock = FALSE],
                       h |-> [h EXCEPT !.pc = "returned"]])
           IN /\ Commit(r.w)
              /\ Suspend(One(h), r.h)
        /\ UNCHANGED <<voice_waiters, nextId>>
        /\ UNCHANGED resolvers

\* extract_song(query) of a single-track /play returns a Song, or raises.
ExtractDone ==
    \E h \in BagToSet(handlers), ok \in BOOLEAN, ffmpegFails \in BOOLEAN,
       sameTitle \in BOOLEAN :
        /\ h.pc = "extract"
        /\ IF ok
           THEN /\ nextId <= MaxSongs
                /\ LET r == enqueue_and_play(h, World, nextId, ffmpegFails, sameTitle)
                   IN /\ Commit(r.w)
                      /\ Suspend(One(h), r.h)
                /\ nextId' = nextId + 1
           ELSE /\ ~ffmpegFails /\ ~sameTitle
                /\ Suspend(One(h), Respond(h, "extract_song raised"))
                /\ UNCHANGED <<player, vc, orphans, callbacks, played, nextId>>
        /\ UNCHANGED voice_waiters
        /\ UNCHANGED resolvers

\* spotify_queries_from_url returns n queries (raises when there are none).
SpotifyExpanded ==
    \E h \in BagToSet(handlers), n \in 0..MaxBatch :
        /\ h.pc = "sp_expand"
        /\ Suspend(One(h), IF n = 0 THEN Respond(h, NoPlayableTracks)
                           ELSE [h EXCEPT !.pc = "sp_extract", !.left = n])
        /\ UNCHANGED <<player, vc, orphans, callbacks, played, nextId, voice_waiters>>
        /\ UNCHANGED resolvers

\* Lines 453-463: the counters after one pass of the batch loop, in which
\* extract_song returned a Song (ok) or raised.
batch_pass_aborting(h, ok) ==
    IF ok THEN [h EXCEPT !.left = @ - 1, !.added = @ + 1]
    ELSE [h EXCEPT !.left = 0, !.failed = @ + 1]

batch_pass(h, ok) ==
    [h EXCEPT !.left = @ - 1,
              !.added = IF ok THEN @ + 1 ELSE @,
              !.failed = IF ok THEN @ ELSE @ + 1]

\* extract_song(spotify_query) of the batch loop returns a Song, or raises.
SpotifyExtractDone ==
    \E h \in BagToSet(handlers), ok \in BOOLEAN, ffmpegFails \in BOOLEAN :
        /\ h.pc = "sp_extract"
        /\ ok => nextId <= MaxSongs
        /\ LET w1 == IF ok THEN [World EXCEPT !.player.queue = Append(@, nextId)]
                     ELSE World
               h1 == batch_pass(h, ok)
               r == IF h1.left > 0 THEN [w |-> w1, out |-> "suspended"]
                    ELSE IF h1.added = 0 THEN [w |-> w1, out |-> "raised"]
                    ELSE play_next(w1, ffmpegFails)
           IN /\ h1.left > 0 \/ h1.added = 0 => ~ffmpegFails
              /\ Commit(r.w)
              /\ Suspend(One(h),
                   IF r.out = "suspended" THEN h1
                   ELSE IF r.out = "blocked" THEN Blocked(h1)
                   ELSE IF h1.added = 0 THEN Respond(h1, NoneResolved)
                   ELSE IF r.out = "raised" THEN Respond(h1, NotConnected)
                   ELSE Respond(h1, "Queued from Spotify"))
        /\ nextId' = IF ok THEN nextId + 1 ELSE nextId
        /\ UNCHANGED voice_waiters
        /\ UNCHANGED resolvers

\* The answers of /skip, sent with interaction.response.send_message.
NotInVoice == "I'm not connected to voice."
NothingPlaying == "Nothing is playing."
Skipped == "Skipped."

\* Lines 510-520: what /skip does to the guild, and its answer.
skip_clearing(w) ==
    IF ~w.vc.exists THEN [w |-> w, msg |-> NotInVoice]
    ELSE IF is_playing(w.vc) \/ is_paused(w.vc)
    THEN [w |-> [vc_stop(w) EXCEPT !.player.now_playing = None], msg |-> Skipped]
    ELSE [w |-> w, msg |-> NothingPlaying]

skip(w) ==
    IF ~w.vc.exists THEN [w |-> w, msg |-> NotInVoice]
    ELSE IF is_playing(w.vc) \/ is_paused(w.vc)
    THEN [w |-> vc_stop(w), msg |-> Skipped]
    ELSE [w |-> w, msg |-> NothingPlaying]

\* /skip.  Its answer is not a follow-up and is left out of `sent`.
Skip ==
    /\ Commit(skip(World).w)
    /\ UNCHANGED <<handlers, voice_waiters, nextId>>
    /\ Quiet
    /\ UNCHANGED resolvers

\* /stop
Stop ==
    /\ LET w1 == [World EXCEPT !.player.queue = <<>>, !.player.now_playing = None]
           w2 == IF w1.vc.exists /\ (is_playing(w1.vc) \/ is_paused(w1.vc))
                 THEN vc_stop(w1) ELSE w1
           w3 == IF w2.vc.exists /\ is_connected(w2.vc)
                 THEN schedule_idle_disconnect(w2) ELSE w2
       IN Commit(w3)
    /\ UNCHANGED <<handlers, voice_waiters, nextId>>
    /\ Quiet
    /\ UNCHANGED resolvers

\* /leave up to await vc.disconnect()
Leave ==
    /\ LET w1 == cancel_idle_disconnect(
                   [World EXCEPT !.player.queue = <<>>, !.player.now_playing = None])
       IN IF w1.vc.exists /\ is_connected(w1.vc)
          THEN /\ InFlight < MaxHandlers
               /\ Commit(vc_disconnect_begin(w1))
               /\ handlers' = handlers (+) One(Handler("leave", "leave_disc", "-"))
          ELSE /\ Commit(w1)
               /\ UNCHANGED handlers
    /\ UNCHANGED <<voice_waiters, nextId>>
    /\ Quiet
    /\ UNCHANGED resolvers

\* vc.disconnect() of /leave returns.
LeaveDisconnected ==
    \E h \in BagToSet(handlers) :
        /\ h.pc = "leave_disc"
        /\ Commit(vc_cleanup(World))
        /\ Suspend(One(h), [h EXCEPT !.pc = "done"])
        /\ UNCHANGED <<voice_waiters, nextId>>
        /\ UNCHANGED resolvers

\* The track ends: the player thread calls _after_playback.
TrackEnds ==
    /\ is_playing(vc)
    /\ Commit(vc_stop(World))
    /\ UNCHANGED <<handlers, voice_waiters, nextId>>
    /\ Quiet
    /\ UNCHANGED resolvers

\* The play_next posted by _after_playback runs.
AfterPlayback ==
    \E ffmpegFails \in BOOLEAN :
        /\ callbacks > 0
        /\ SetWorld(play_next([World EXCEPT !.callbacks = @ - 1], ffmpegFails).w)
        /\ UNCHANGED <<handlers, voice_waiters, nextId>>
        /\ Quiet
        /\ UNCHANGED resolvers

\* The task player.idle_task refers to takes a step.
IdleTaskStep ==
    /\ player.idle_task \in {"sleeping", "disconnecting"}
    /\ LET r == _idle_disconnect(World, player.idle_task)
       IN Commit([r.w EXCEPT !.player.idle_task = r.st])
    /\ UNCHANGED <<handlers, voice_waiters, nextId>>
    /\ Quiet
    /\ UNCHANGED resolvers

\* A task player.idle_task no longer refers to takes a step.
OrphanTaskStep ==
    \E st \in BagToSet(orphans) :
        /\ LET r == _idle_disconnect([World EXCEPT !.orphans = @ (-) SetToBag({st})], st)
           IN Commit(IF r.st = "done" THEN r.w
                     ELSE [r.w EXCEPT !.orphans = @ (+) SetToBag({r.st})])
        /\ UNCHANGED <<handlers, voice_waiters, nextId>>
        /\ Quiet
        /\ UNCHANGED resolvers

Next ==
    \/ Join
    \/ Play
    \/ PlaySpotify
    \/ VoiceLockAcquired
    \/ ConnectDone
    \/ ForceDisconnectDone
    \/ MoveDone
    \/ ExtractDone
    \/ SpotifyExpanded
    \/ SpotifyExtractDone
    \/ Skip
    \/ Stop
    \/ Leave
    \/ LeaveDisconnected
    \/ TrackEnds
    \/ AfterPlayback
    \/ IdleTaskStep
    \/ OrphanTaskStep

Spec == Init /\ [][Next]_vars


\* ------------------------------------------------------------ properties
InSeq(x, q) == \E i \in 1..Len(q) : q[i] = x

\* The step ran play_next (alone, or after appending the new song).
PlayNextStep == AfterPlayback \/ ExtractDone \/ SpotifyExtractDone

\* Every Song object created so far is still queued or was assigned to
\* now_playing: none was dropped by /stop or /leave.
NothingDropped ==
    \A i \in 1..(nextId - 1) : InSeq(i, player.queue) \/ InSeq(i, played)

\* C1: play_next never takes a song for playback while the voice client is
\* already playing or paused, whatever the interleaving of commands,
\* completion callbacks and idle-timer firings.
C1_OnePlaybackAtATime ==
    [][played' # played => ~(is_playing(vc) \/ is_paused(vc))]_vars

\* A track is streaming while another play_next is pending.
C1_Witness ==
    /\ is_playing(vc)
    /\ player.now_playing = 2
    /\ played = <<1, 2>>
    /\ callbacks > 0

\* C2: songs become now_playing in the order they were appended (song
\* identities are numbered in append order), as long as no song was dropped
\* from the queue by /stop or /leave.
C2_Fifo ==
    NothingDropped => played = [i \in 1..Len(played) |-> i]

\* Two songs were appended and both were started, none was dropped.
C2_Witness ==
    /\ NothingDropped
    /\ Len(played) >= 2
    /\ handlers = EmptyBag

\* C3: a play_next that runs while the voice client is playing or paused
\* changes neither now_playing nor the queue (beyond the append its caller
\* made) and starts no playback.
C3_AdvanceIdempotentWhilePlaying ==
    [][(PlayNextStep /\ (is_playing(vc) \/ is_paused(vc)))
         => /\ player'.now_playing = player.now_playing
            /\ played' = played
            /\ vc' = vc
            /\ \/ player'.queue = player.queue
               \/ player'.queue = Append(player.queue, nextId)]_vars

\* A song waits in the queue behind the playing one after its /play ran
\* play_next and returned.
C3_Witness ==
    /\ is_playing(vc)
    /\ player.now_playing = 1
    /\ player.queue = <<2>>
    /\ handlers = EmptyBag
    /\ callbacks = 0

\* C4: /stop leaves the queue and now_playing empty and nothing streaming,
\* and a play_next that then runs on the still existing voice client with
\* the queue still empty arms the idle-disconnect task.
C4_StopThenAdvanceArms ==
    [][/\ Stop => /\ player'.queue = <<>>
                  /\ player'.now_playing = None
                  /\ ~is_playing(vc')
       /\ (/\ AfterPlayback
           /\ vc.exists /\ ~player.lock
           /\ player.queue = <<>> /\ ~is_playing(vc))
            => /\ player'.idle_task = "sleeping"
               /\ player'.queue = <<>>
               /\ player'.now_playing = None]_vars

\* /stop interrupted song 1 with song 2 queued; the callback of the stopped
\* track has run and the idle task armed by /stop was replaced by a new one.
C4_Witness ==
    /\ played = <<1>>
    /\ nextId = 3
    /\ player.queue = <<>>
    /\ player.now_playing = None
    /\ is_connected(vc) /\ ~is_playing(vc)
    /\ callbacks = 0
    /\ player.idle_task = "sleeping"
    /\ BagIn("cancelledSleep", orphans)
    /\ handlers = EmptyBag

\* Idle tasks that are no longer referenced and have not fired.
DisarmedBeforeFiring(b) == CopiesIn("sleeping", b) + CopiesIn("cancelledSleep", b)

\* C5: an idle-disconnect task that was disarmed before its sleep returned
\* only ever finishes: it does not disconnect and changes no other state.
C5_CancelledIdleTaskHasNoEffect ==
    [][DisarmedBeforeFiring(orphans') < DisarmedBeforeFiring(orphans)
         => /\ orphans' = orphans (-) SetToBag({"cancelledSleep"})
            /\ UNCHANGED <<player, vc, callbacks, handlers, voice_waiters,
                           nextId, played>>]_vars

\* A disarmed task exists while the guild is connected, silent and its queue
\* empty: had it fired it would have disconnected.
C5_Witness ==
    /\ BagIn("cancelledSleep", orphans)
    /\ IdleCondition(World)
    /\ player.idle_task = "None"

\* The idle task player.idle_task refers to leaves its sleep.
IdleTaskFires ==
    /\ player.idle_task = "sleeping"
    /\ player'.idle_task \in {"disconnecting", "done"}

\* C6: when the sleep of the armed idle task returns, the task starts a
\* disconnect exactly if the guild is connected, not playing, not paused and
\* its queue is empty, and otherwise changes nothing; a task that started its
\* disconnect is over only with now_playing cleared.
C6_IdleFireDisconnectsIffIdle ==
    [][/\ IdleTaskFires
           => IF IdleCondition(World)
              THEN /\ player'.idle_task = "disconnecting"
                   /\ ~is_connected(vc')
                   /\ player'.queue = player.queue
                   /\ UNCHANGED <<callbacks, played, handlers, orphans>>
              ELSE /\ player'.idle_task = "done"
                   /\ vc' = vc
                   /\ player'.queue = player.queue
                   /\ player'.now_playing = player.now_playing
                   /\ UNCHANGED <<callbacks, played, handlers, orphans>>
       /\ (player.idle_task = "disconnecting" /\ player'.idle_task # "disconnecting")
           => player'.now_playing = None]_vars

\* The step ran code of ensure_voice.
EnsureVoiceStep ==
    \/ Join
    \/ Play
    \/ PlaySpotify
    \/ VoiceLockAcquired
    \/ ConnectDone
    \/ ForceDisconnectDone
    \/ MoveDone

\* C7: no step of ensure_voice moves or disconnects the voice client while a
\* track is playing or paused.
C7_NeverMovedWhilePlaying ==
    [][(EnsureVoiceStep /\ (is_playing(vc) \/ is_paused(vc))) => vc' = vc]_vars

\* C8: once the track has ended with its callback pending and song h at the
\* head of the queue, h is eventually taken from the queue and assigned to
\* now_playing, unless /stop or /leave drops it or voice is disconnected.
Dropped(h) == h < nextId /\ ~InSeq(h, player.queue) /\ ~InSeq(h, played)

C8_CallbackStartsQueueHead ==
    \A h \in Songs :
        (/\ callbacks > 0
         /\ is_connected(vc) /\ ~is_playing(vc) /\ ~player.lock
         /\ player.queue # <<>> /\ Head(player.queue) = h)
        ~> \/ InSeq(h, played) /\ ~InSeq(h, player.queue)
           \/ Dropped(h)
           \/ ~is_connected(vc)

\* Two /play on an idle guild, the first track has ended: the second song is
\* now_playing, the queue is empty.
C8_Witness ==
    /\ played = <<1, 2>>
    /\ nextId = 3
    /\ player.now_playing = 2
    /\ is_playing(vc)
    /\ player.queue = <<>>
    /\ callbacks = 0
    /\ handlers = EmptyBag

\* The event loop runs every coroutine posted to it by run_coroutine_threadsafe.
SpecFair == Spec /\ WF_vars(AfterPlayback)


\* ============================================================ extract_song
\* What a provider answers to ydl.extract_info(query, download=False):
\*   "info"            one result; url: it carries a stream URL
\*   "entries"         a search result list with n non-empty entries; url: the
\*                     first of them carries a stream URL
\*   "download_error"  yt_dlp DownloadError; drm, signin: its lowercased
\*                     message contains "drm", "sign in to confirm"
\*   "error"           any other exception
Answers ==
    [kind : {"info"}, url : BOOLEAN, n : {1}, drm : {FALSE}, signin : {FALSE}]
    \cup [kind : {"entries"}, url : BOOLEAN, n : 0..1, drm : {FALSE}, signin : {FALSE}]
    \cup [kind : {"download_error"}, url : {FALSE}, n : {0}, drm : BOOLEAN, signin : BOOLEAN]
    \cup [kind : {"error"}, url : {FALSE}, n : {0}, drm : {FALSE}, signin : {FALSE}]

\* The kinds of query extract_song distinguishes, and whether the oEmbed
\* lookup of a YouTube URL yields a title.
QueryKinds == {"text", "youtube_url", "other_url"}

\* An exception: what it says and which attempt raised it.
Raised(err, attempt) == [ok |-> FALSE, err |-> err, from |-> attempt, url |-> FALSE]

\* Lines 232-238: the RuntimeError a DownloadError is turned into.
classify_download_error(a) ==
    IF a.drm THEN "This video is DRM-protected and cannot be played."
    ELSE IF a.signin THEN "YouTube blocked this request. Try another video."
    ELSE "Failed to fetch audio from YouTube."

_extract_with_options(a, attempt) ==
    IF a.kind = "info" THEN [ok |-> TRUE, err |-> "", from |-> attempt, url |-> a.url]
    ELSE IF a.kind = "entries"
    THEN IF a.n = 0 THEN Raised("No results found.", attempt)
         ELSE [ok |-> TRUE, err |-> "", from |-> attempt, url |-> a.url]
    ELSE IF a.kind = "download_error"
    THEN Raised(classify_download_error(a), attempt)
    ELSE Raised("exception", attempt)

\* Lines 260-264: the query of the fallback attempt.
sc_query(queryKind, oembedTitle) ==
    IF queryKind = "youtube_url" /\ oembedTitle THEN "scsearch1:title"
    ELSE "scsearch1:query"

\* Lines 266-267: what _extract raises when the fallback failed too.
reraise_fallback(yt_exc, sc_exc) == sc_exc

reraise(yt_exc, sc_exc) == yt_exc

\* Lines 254-267.  tried: the queries handed to the fallback provider.
_extract(in) ==
    LET yt == _extract_with_options(in.primary, "primary") IN
    IF yt.ok THEN [r |-> yt, tried |-> <<>>]
    ELSE LET q == sc_query(in.queryKind, in.oembedTitle)
             sc == _extract_with_options(in.secondary, "secondary")
         IN [r |-> IF sc.ok THEN sc ELSE reraise(yt, sc), tried |-> <<q>>]

\* Lines 269-279.
extract_song(in) ==
    LET e == _extract(in) IN
    IF e.r.ok /\ ~e.r.url
    THEN [r |-> Raised("Could not get audio stream URL.", "extract_song"),
          tried |-> e.tried]
    ELSE e

InitExtract ==
    /\ player = GuildPlayer
    /\ vc = NoVoiceClient
    /\ orphans = EmptyBag
    /\ callbacks = 0
    /\ handlers = EmptyBag
    /\ voice_waiters = <<>>
    /\ nextId = 1
    /\ played = <<>>
    /\ sent = Silent
    /\ sp = NoCall
    /\ \E a1 \in Answers, a2 \in Answers, k \in QueryKinds, t \in BOOLEAN :
          ex = [done |-> FALSE, primary |-> a1, secondary |-> a2,
                queryKind |-> k, oembedTitle |-> t]

ExtractSong ==
    /\ ~ex.done
    /\ ex' = [done |-> TRUE, primary |-> ex.primary, secondary |-> ex.secondary,
              queryKind |-> ex.queryKind, oembedTitle |-> ex.oembedTitle,
              out |-> extract_song(ex)]
    /\ UNCHANGED <<player, vc, orphans, callbacks, handlers, voice_waiters,
                   nextId, played, sent, sp>>

NextExtract == ExtractSong

SpecExtract == InitExtract /\ [][NextExtract]_vars

\* The attempt fails: it raises.
Fails(a) == a.kind \in {"download_error", "error"} \/ (a.kind = "entries" /\ a.n = 0)

\* The error the primary attempt raises on answer a.
PrimaryError(a) ==
    CASE a.kind = "download_error" /\ a.drm
           -> "This video is DRM-protected and cannot be played."
      [] a.kind = "download_error" /\ ~a.drm /\ a.signin
           -> "YouTube blocked this request. Try another video."
      [] a.kind = "download_error" /\ ~a.drm /\ ~a.signin
           -> "Failed to fetch audio from YouTube."
      [] a.kind = "entries" -> "No results found."
      [] OTHER -> "exception"

\* C9: the fallback provider is asked exactly when the primary attempt
\* failed, and when both attempts fail the error extract_song raises is the
\* primary attempt's (a DownloadError classified by its message: "drm", else
\* "sign in to confirm", else the generic failure), never the fallback's.
C9_PrimaryErrorSurfaces ==
    ex.done =>
        /\ (ex.out.tried # <<>>) <=> Fails(ex.primary)
        /\ (Fails(ex.primary) /\ Fails(ex.secondary))
             => /\ ~ex.out.r.ok
                /\ ex.out.r.from = "primary"
                /\ ex.out.r.err = PrimaryError(ex.primary)

\* The primary attempt was blocked ("sign in to confirm"), the fallback
\* failed with another error, and the blocked error came out.
C9_Witness ==
    /\ ex.done
    /\ ex.primary.kind = "download_error" /\ ex.primary.signin /\ ~ex.primary.drm
    /\ ex.secondary.kind = "download_error" /\ ex.secondary.drm
    /\ ex.out.r.err = "YouTube blocked this request. Try another video."
    /\ ex.out.tried # <<>>


\* ================================================ spotify_queries_from_url
\* A catalog: its kind, the number of its entries, the entries
\* missFrom..missTo that have no usable title (none when missTo < missFrom),
\* and whether the API names a next page on the last page that has entries
\* (dangling).  The query built from a titled entry is identified with the
\* entry's place.
\* Catalogs that reach over several pages: they begin with untitled entries.
LongTotals ==
    {AlbumPageSize, AlbumPageSize + 1, PlaylistPageSize, PlaylistPageSize + 1,
     2 * PlaylistPageSize + 1}

Catalogs ==
    {[kind |-> k, total |-> n, missFrom |-> a, missTo |-> b, dangling |-> d] :
        k \in {"album", "playlist"}, n \in 0..MaxEntries,
        a \in 1..MaxEntries, b \in 0..MaxEntries, d \in BOOLEAN}
    \cup {[kind |-> k, total |-> n, missFrom |-> 1, missTo |-> b, dangling |-> d] :
        k \in {"album", "playlist"}, n \in LongTotals,
        b \in 0..(2 * PlaylistPageSize + 1), d \in BOOLEAN}
    \cup {[kind |-> "track", total |-> 1, missFrom |-> a, missTo |-> a - 1 + m,
           dangling |-> FALSE] :
        a \in {1}, m \in 0..1}

WellFormed(c) ==
    /\ c.missFrom <= c.total + 1
    /\ c.missTo <= c.total
    /\ c.missTo >= c.missFrom - 1

\* Lines 162-168: the query of entry i, or None.
_to_query(c, i) ==
    IF c.missFrom <= i /\ i <= c.missTo THEN None ELSE i

\* sp.album_tracks / sp.playlist_items: the entries of one page and whether
\* the page names a next page.
Page(c, offset, limit) ==
    LET last == IF offset + limit < c.total THEN offset + limit ELSE c.total
    IN [items |-> [i \in 1..(IF last > offset THEN last - offset ELSE 0) |-> offset + i],
        next |-> offset + limit < c.total \/ (c.dangling /\ offset < c.total)]

\* Lines 186 and 208.
cap_reached_off_by_one(queries) == Len(queries) > MAX_SPOTIFY_TRACKS

cap_reached(queries) == Len(queries) >= MAX_SPOTIFY_TRACKS

\* Lines 182-187 and 203-209: the for loop over the entries of a page, from
\* entry i of the page on.
RECURSIVE for_items(_, _, _, _)
for_items(c, items, i, queries) ==
    IF i > Len(items) THEN queries
    ELSE LET query == _to_query(c, items[i])
             q1 == IF query # None THEN Append(queries, query) ELSE queries
         IN IF cap_reached(q1) THEN q1
            ELSE for_items(c, items, i + 1, q1)

\* Lines 188 and 210: the page names no next page.
no_next_page_ignored(page) == FALSE

no_next_page(page) == ~page.next

\* Lines 176-190 and 192-212: the while loop over the pages.  fetches
\* counts the pages requested.
RECURSIVE while_pages(_, _, _, _, _)
while_pages(c, limit, offset, queries, fetches) ==
    IF ~(Len(queries) < MAX_SPOTIFY_TRACKS)
    THEN [queries |-> queries, fetches |-> fetches]
    ELSE LET page == Page(c, offset, limit) IN
         IF page.items = <<>> THEN [queries |-> queries, fetches |-> fetches + 1]
         ELSE LET q1 == for_items(c, page.items, 1, queries) IN
              IF no_next_page(page) THEN [queries |-> q1, fetches |-> fetches + 1]
              ELSE while_pages(c, limit, offset + limit, q1, fetches + 1)

\* Lines 157-216.
spotify_queries_from_url(c) ==
    LET r == IF c.kind = "track"
             THEN [queries |-> IF _to_query(c, 1) # None THEN <<_to_query(c, 1)>>
                               ELSE <<>>,
                   fetches |-> 0]
             ELSE IF c.kind = "album"
             THEN while_pages(c, AlbumPageSize, 0, <<>>, 0)
             ELSE while_pages(c, PlaylistPageSize, 0, <<>>, 0)
    IN IF r.queries = <<>>
       THEN [ok |-> FALSE, err |-> NoPlayableTracks, queries |-> <<>>,
             fetches |-> r.fetches]
       ELSE [ok |-> TRUE, err |-> "", queries |-> r.queries, fetches |-> r.fetches]

InitSpotify ==
    /\ player = GuildPlayer
    /\ vc = NoVoiceClient
    /\ orphans = EmptyBag
    /\ callbacks = 0
    /\ handlers = EmptyBag
    /\ voice_waiters = <<>>
    /\ nextId = 1
    /\ played = <<>>
    /\ sent = Silent
    /\ ex = NoCall
    /\ \E c \in Catalogs :
          /\ WellFormed(c)
          /\ sp = [done |-> FALSE, catalog |-> c]

SpotifyQueries ==
    /\ ~sp.done
    /\ sp' = [done |-> TRUE, catalog |-> sp.catalog,
              out |-> spotify_queries_from_url(sp.catalog)]
    /\ UNCHANGED <<player, vc, orphans, callbacks, handlers, voice_waiters,
                   nextId, played, sent, ex>>

NextSpotify == SpotifyQueries

SpecSpotify == InitSpotify /\ [][NextSpotify]_vars

\* The titled entries of a catalog, in catalog order.
Titled(c) ==
    SelectSeq([i \in 1..c.total |-> i], LAMBDA i : i < c.missFrom \/ i > c.missTo)

FirstN(q, n) == SubSeq(q, 1, IF Len(q) < n THEN Len(q) ELSE n)

\* The playlist of C10: 30 entries, entry 10 has no title.
ThirtyWithTenthUntitled(c) ==
    c.kind = "playlist" /\ c.total = 30 /\ c.missFrom = 10 /\ c.missTo = 10

\* C10 as stated: the playlist with 30 entries of which entry 10 has no title
\* yields 29 queries, one per titled entry in catalog order, and a catalog
\* without a titled entry fails with "No playable tracks".
C10_AsStated ==
    sp.done =>
        /\ ThirtyWithTenthUntitled(sp.catalog)
             => sp.out.ok /\ Len(sp.out.queries) = 29
        /\ Titled(sp.catalog) = <<>> => ~sp.out.ok

\* C10 amended: the result is the first 25 titled entries in catalog order
\* (all of them when there are fewer), so that playlist yields 25 queries;
\* a catalog without a titled entry fails with "No playable tracks".
C10_FirstTwentyFiveTitled ==
    sp.done =>
        IF Titled(sp.catalog) = <<>>
        THEN ~sp.out.ok /\ sp.out.err = NoPlayableTracks
        ELSE /\ sp.out.ok
             /\ sp.out.queries = FirstN(Titled(sp.catalog), 25)

\* That playlist was expanded: 25 queries, entries 1-9 and 11-26.
C10_Witness ==
    /\ sp.done
    /\ ThirtyWithTenthUntitled(sp.catalog)
    /\ Len(sp.out.queries) = 25
    /\ sp.out.queries[10] = 11
    /\ sp.out.queries[25] = 26


\* ===================================================== the Spotify batch
\* The step ended the await of extract_song in the batch loop of handler h.
BatchStep(h) ==
    /\ h.pc = "sp_extract"
    /\ CopiesIn(h, handlers') < CopiesIn(h, handlers)

\* The songs play_next took from the queue in this step.
Taken == SubSeq(played', Len(played) + 1, Len(played'))

\* C11: in the batch loop of a Spotify /play a track that fails to resolve
\* is counted and skipped and the loop goes on; a track that resolves is
\* appended at the tail of the queue and nothing else is; after the last
\* track the batch fails ("Could not resolve any Spotify tracks") exactly
\* when no track resolved, and then the queue is as it was and no play_next
\* ran.
C11_BatchSkipsFailedTracks ==
    [][\A h \in BagToSet(handlers) : BatchStep(h) =>
         LET ok == nextId' # nextId
             added1 == IF ok THEN h.added + 1 ELSE h.added
             failed1 == IF ok THEN h.failed ELSE h.failed + 1
             q1 == IF ok THEN Append(player.queue, nextId) ELSE player.queue
         IN /\ Taken \o player'.queue = q1
            /\ h.left > 1 =>
                 /\ BagIn([h EXCEPT !.left = @ - 1, !.added = added1,
                                    !.failed = failed1], handlers')
                 /\ Taken = <<>>
                 /\ sent' = Silent
            /\ h.left = 1 =>
                 /\ (sent' = NoneResolved) <=> (added1 = 0)
                 /\ added1 = 0 => Taken = <<>> /\ player' = player
       ]_vars

\* The first track of a batch of two failed to resolve; the batch goes on.
C11_Witness ==
    \E h \in BagToSet(handlers) :
        /\ h.pc = "sp_extract"
        /\ h.failed = 1 /\ h.added = 0 /\ h.left = 1

\* ------------------------------------------------- the state of a tenant
\* C12, its second half: while voice is connected, now_playing is set
\* exactly while a track is streaming (never set with no track streaming,
\* never empty with a track streaming).
C12_NowPlayingIffStreaming ==
    is_connected(vc) => (player.now_playing # None <=> is_playing(vc))

\* No command handler, completion callback or play_next is in flight.
Quiescent ==
    /\ handlers = EmptyBag
    /\ voice_waiters = <<>>
    /\ callbacks = 0
    /\ ~player.lock

\* An idle-disconnect task is pending: scheduled, not cancelled, not over.
IdlePending == player.idle_task \in {"sleeping", "disconnecting"}

\* C13: once the handlers are over, a guild that is connected, silent and
\* has an empty queue has an idle-disconnect task pending; and no
\* idle-disconnect task is pending while a track is playing.
C13_IdleArmedExactlyWhenIdle ==
    /\ (Quiescent /\ is_connected(vc) /\ ~is_playing(vc) /\ player.queue = <<>>)
         => IdlePending
    /\ is_playing(vc) => ~IdlePending

\* The idle-disconnect tasks that are scheduled, not cancelled and not over.
PendingIdleTasks ==
    (IF IdlePending THEN 1 ELSE 0)
    + CopiesIn("sleeping", orphans) + CopiesIn("disconnecting", orphans)

\* C14: at most one idle-disconnect task is pending, and
\* cancel_idle_disconnect leaves idle_task empty and changes nothing when
\* applied a second time.
C14_AtMostOneIdleTask ==
    /\ PendingIdleTasks <= 1
    /\ cancel_idle_disconnect(World).player.idle_task = "None"
    /\ cancel_idle_disconnect(cancel_idle_disconnect(World))
         = cancel_idle_disconnect(World)

\* A second /join replaced the idle task of the first: the old task is
\* cancelled and not over yet, the new one is pending.
C14_Witness ==
    /\ nextId = 1
    /\ player.idle_task = "sleeping"
    /\ BagIn("cancelledSleep", orphans)
    /\ sent = "Joined your voice channel."

\* ------------------------------------------------------ attach failure
Last(q) == q[Len(q)]

\* C15: a step in which play_next takes songs from the queue ends with the
\* last song it took as now_playing, or, when attaching failed down to the
\* end of the queue, with the queue empty, now_playing empty and the idle
\* task armed; either way play_next is over and its lock released.
C15_AttachFailureAdvances ==
    [][played' # played
         => /\ ~player'.lock
            /\ \/ player'.now_playing = Last(played')
               \/ /\ player'.queue = <<>>
                  /\ player'.now_playing = None
                  /\ player'.idle_task = "sleeping"]_vars

\* C16: no lock is left held.  player.lock is taken and released within one
\* run of play_next, so it is free whenever no coroutine runs and no handler
\* waits for it; player.voice_lock is held only by a handler at an await of
\* ensure_voice, which releases it when that await is over.
C16_NoLockLeftHeld ==
    /\ ~player.lock
    /\ \A h \in BagToSet(handlers) : h.pc # "pn_wait"
    /\ player.voice_lock
         => \E h \in BagToSet(handlers) : h.pc \in {"ev_connect", "ev_fdisc", "ev_move"}

\* ---------------------------------------------------- connect with retry
\* The step ended the await handler h was suspended at.
Resumed(h) == CopiesIn(h, handlers') < CopiesIn(h, handlers)

\* ensure_voice returned to its caller in this step: /join answered
\* "Joined", /play went on to resolve its query.
EnsureVoiceReturned(h) ==
    IF h.cmd = "join" THEN sent' = "Joined your voice channel."
    ELSE \E g \in BagToSet(handlers') :
            /\ g.cmd = h.cmd
            /\ g.pc \in {"extract", "sp_expand"}
            /\ CopiesIn(g, handlers') > CopiesIn(g, handlers)

\* C17: with no voice client, or after the force-disconnect of one that
\* reported not connected, ensure_voice makes at most 3 connect attempts; it
\* returns in the step in which an attempt yields a connected client, tries
\* again after an attempt that raised or yielded a client that is not
\* connected, and after the third such attempt fails with "Voice connection
\* failed"; it returns only with a connected client.
C17_ConnectWithRetry ==
    [][\A h \in BagToSet(handlers) :
         /\ (h.pc = "ev_fdisc" /\ Resumed(h))
              => /\ ~vc'.exists
                 /\ BagIn([h EXCEPT !.pc = "ev_connect", !.att = 1], handlers')
         /\ (h.pc = "ev_connect" /\ Resumed(h))
              => /\ h.att \in 1..ConnectAttempts
                 /\ ~is_connected(vc)
                 /\ IF is_connected(vc')
                    THEN /\ EnsureVoiceReturned(h)
                         /\ ~player'.voice_lock
                    ELSE /\ ~EnsureVoiceReturned(h)
                         /\ IF h.att < ConnectAttempts
                            THEN /\ BagIn([h EXCEPT !.att = @ + 1], handlers')
                                 /\ player'.voice_lock
                                 /\ sent' = Silent
                            ELSE /\ sent' = ConnectionFailed
                                 /\ ~player'.voice_lock
      ]_vars

\* Two attempts raised and the third yielded a client that reports not
\* connected: ensure_voice failed and did not return that client.
C17_Witness ==
    /\ sent = ConnectionFailed
    /\ vc.exists /\ ~is_connected(vc)
    /\ handlers = EmptyBag

\* C18: while the batch loop of a Spotify /play has appended a song and is
\* not over, no step of anything else takes a song from the queue
\* (play_next) or appends one (another /play).
C18_BatchAppendsUnderLock ==
    [][\A h \in BagToSet(handlers) :
         (h.pc = "sp_extract" /\ h.added > 0 /\ ~Resumed(h))
            => /\ played' = played
               /\ nextId' = nextId]_vars

\* ------------------------------------------------------------ pagination
PageSize(c) == IF c.kind = "album" THEN AlbumPageSize ELSE PlaylistPageSize

\* The titled entries among the first n entries of the catalog.
TitledUpTo(c, n) ==
    Cardinality({i \in 1..(IF n < c.total THEN n ELSE c.total) :
                    i < c.missFrom \/ i > c.missTo})

\* After its k-th page the loop is over: 25 queries are accumulated, or the
\* page is empty, or it names no next page.
StopsAfter(c, k) ==
    LET page == Page(c, (k - 1) * PageSize(c), PageSize(c))
    IN \/ TitledUpTo(c, k * PageSize(c)) >= MAX_SPOTIFY_TRACKS
       \/ page.items = <<>>
       \/ ~page.next

\* C19: for an album or a playlist the result has at most 25 queries, all
\* of titled entries and in catalog order, and the loop over the pages ends:
\* it requests pages up to the first one after which 25 queries are
\* accumulated, or which is empty, or which names no next page, and none
\* after it.
C19_PaginationStopsAndCaps ==
    (sp.done /\ sp.catalog.kind \in {"album", "playlist"}) =>
        LET c == sp.catalog
            q == sp.out.queries
            n == sp.out.fetches
        IN /\ Len(q) <= 25
           /\ \A i \in 1..Len(q) :
                 /\ q[i] \in 1..c.total
                 /\ q[i] < c.missFrom \/ q[i] > c.missTo
                 /\ i < Len(q) => q[i] < q[i + 1]
           /\ n >= 1
           /\ StopsAfter(c, n)
           /\ \A k \in 1..(n - 1) : ~StopsAfter(c, k)

\* A playlist of 201 entries whose first 190 have no title: three pages are
\* requested and the 11 titled entries come out in order.
C19_Witness ==
    /\ sp.done
    /\ sp.catalog.kind = "playlist"
    /\ sp.catalog.total = 201
    /\ sp.catalog.missTo = 190
    /\ sp.out.fetches = 3
    /\ Len(sp.out.queries) = 11
    /\ sp.out.queries[1] = 191

\* ---------------------------------------------------- the answer of /play
\* C20: a single-track /play that appended its song (identity nextId) and
\* answers "Now playing" or "Queued" answers "Now playing" exactly when that
\* very song is now_playing, and "Queued" whenever it still waits in the
\* queue.
C20_NowPlayingIffOwnSong ==
    [][\A h \in BagToSet(handlers) :
         (/\ h.cmd = "play" /\ h.pc = "extract" /\ Resumed(h)
          /\ nextId' = nextId + 1
          /\ sent' \in {"Now playing", "Queued"})
            => /\ (sent' = "Now playing") <=> (player'.now_playing = nextId)
               /\ InSeq(nextId, player'.queue) => sent' = "Queued"]_vars

\* -------------------------------------------------------- stranded songs
\* C21: no song is stranded: once no command handler, completion callback
\* or play_next is in flight, a non-empty queue implies that voice is
\* connected and a track is playing or paused.
C21_NoSongStranded ==
    (Quiescent /\ player.queue # <<>>)
        => (is_connected(vc) /\ (is_playing(vc) \/ is_paused(vc)))

\* =================================================================== /skip
\* /skip with its answer observed: the step of Skip, and `sent` carries the
\* message of interaction.response.send_message.
SkipReplies ==
    /\ Commit(skip(World).w)
    /\ sent' = skip(World).msg
    /\ UNCHANGED <<handlers, voice_waiters, nextId>>
    /\ UNCHANGED resolvers

\* The engine with the answers of /skip observed.
NextSkip ==
    \/ Join
    \/ Play
    \/ PlaySpotify
    \/ VoiceLockAcquired
    \/ ConnectDone
    \/ ForceDisconnectDone
    \/ MoveDone
    \/ ExtractDone
    \/ SpotifyExpanded
    \/ SpotifyExtractDone
    \/ SkipReplies
    \/ Stop
    \/ Leave
    \/ LeaveDisconnected
    \/ TrackEnds
    \/ AfterPlayback
    \/ IdleTaskStep
    \/ OrphanTaskStep

SpecSkip == Init /\ [][NextSkip]_vars

\* A step of /skip: only /skip sends these answers.
SkipStep == sent' \in {NotInVoice, NothingPlaying, Skipped}

\* What is common to C22 as stated and as amended: /skip leaves the queue,
\* now_playing, the idle task, both locks and the handlers alone; while a
\* track is playing or paused it stops the stream, which posts one play_next,
\* and answers "Skipped."; otherwise it leaves the voice client and the
\* posted callbacks alone too.
SkipFrame ==
    /\ player' = player
    /\ orphans' = orphans
    /\ played' = played
    /\ UNCHANGED <<handlers, voice_waiters, nextId>>
    /\ IF is_playing(vc) \/ is_paused(vc)
       THEN /\ sent' = Skipped
            /\ vc' = [vc EXCEPT !.playing = FALSE]
            /\ callbacks' = callbacks + 1
       ELSE /\ sent' \in {NotInVoice, NothingPlaying}
            /\ vc' = vc
            /\ callbacks' = callbacks

\* C22 as stated: /skip never modifies the queue or now_playing; while a
\* track is playing or paused it only stops the stream; when the bot is not
\* connected it answers NotInVoice, when it is connected and nothing is
\* playing it answers NothingPlaying, and in both cases queue, now_playing,
\* idle task and connection are unchanged.
C22_AsStated ==
    [][SkipStep =>
         /\ SkipFrame
         /\ ~(is_playing(vc) \/ is_paused(vc)) =>
               sent' = IF ~is_connected(vc) THEN NotInVoice ELSE NothingPlaying]_vars

\* C22 amended: as C22_AsStated, but /skip answers NotInVoice exactly when
\* the guild has no voice client; with a voice client that is not playing,
\* connected or not, it answers NothingPlaying.
C22_SkipOnlyStopsPlayback ==
    [][SkipStep =>
         /\ SkipFrame
         /\ ~(is_playing(vc) \/ is_paused(vc)) =>
               sent' = IF ~vc.exists THEN NotInVoice ELSE NothingPlaying]_vars

\* /skip has stopped a track while a song was queued behind it: now_playing
\* and the queue are still there and the posted play_next has not run.
C22_Witness ==
    /\ sent = Skipped
    /\ player.now_playing # None
    /\ player.queue # <<>>
    /\ ~is_playing(vc)
    /\ callbacks > 0

====
